---- MODULE Spec2Model ----
(***************************************************************************)
(* Model of maven-downloader.py: the POM fetcher with its per-run cache    *)
(* (MavenPomDownloader), the POM model that walks the parent chain         *)
(* (MavenPom), and the recursive library downloader                        *)
(* (MavenLibraryDownloader) driven by main().                              *)
(*                                                                         *)
(* Text is modelled as a sequence of one-character strings, so that        *)
(* startswith / endswith / slicing / lower() are computed as Python        *)
(* computes them.  A Python dict is a TLA+ function (record) whose DOMAIN  *)
(* is the set of keys present; an XML element is a record whose DOMAIN is  *)
(* the set of child elements present.                                      *)
(***************************************************************************)
EXTENDS Integers, Sequences, FiniteSets, Bags, TLC

(***************************************************************************)
(* Bounds of the model.                                                    *)
(***************************************************************************)
\* largest number of base urls given with --maven_urls
MaxUrls == 2
\* largest number of libraries given with --libraries
MaxLibraries == 2
\* largest number of failed requests (a published POM refused, a transport
\* error, a jar that cannot be written) in one run
MaxFaults == 2

(***************************************************************************)
(* Text helpers.                                                           *)
(***************************************************************************)
UpperChars == <<"C", "E", "I", "L", "M", "O", "P", "R", "S", "T", "U", "Y">>
LowerChars == <<"c", "e", "i", "l", "m", "o", "p", "r", "s", "t", "u", "y">>

\* str.lower(), character by character
lower(text) ==
    [i \in 1..Len(text) |->
        IF \E k \in 1..Len(UpperChars) : UpperChars[k] = text[i]
        THEN LowerChars[CHOOSE k \in 1..Len(UpperChars) : UpperChars[k] = text[i]]
        ELSE text[i]]

\* only the beginning of the text is looked at
IsPropertyRef_prefix(val) ==
    /\ Len(val) >= 2
    /\ val[1] = "$"
    /\ val[2] = "{"

\* val.startswith( '${' ) and val.endswith( '}' )
IsPropertyRef(val) ==
    /\ Len(val) >= 2
    /\ val[1] = "$"
    /\ val[2] = "{"
    /\ val[Len(val)] = "}"

\* val[2:-1]
PropName(val) == SubSeq(val, 3, Len(val) - 1)

(***************************************************************************)
(* MavenLib: a coordinate; __eq__ compares the three fields.               *)
(***************************************************************************)
MavenLib(groupId, artifactId, version) ==
    [groupId |-> groupId, artifactId |-> artifactId, version |-> version]

\* x in list, by MavenLib.__eq__
InList(lib, list) == \E i \in 1..Len(list) : list[i] = lib

\* MavenLib.__repr__: "%s:%s:%s"
__repr__(self) ==
    self.groupId \o <<":">> \o self.artifactId \o <<":">> \o self.version

\* the element of a one-element set; the loops below are written
\*   Only({ Loop(s, ...) : s \in { the state after one iteration } })
\* so that the state after an iteration is computed once
Only(set) == CHOOSE x \in set : TRUE

(***************************************************************************)
(* parse_downlod_libaries                                                  *)
(***************************************************************************)
\* text.split( sep ): the texts between the separators, empty ones included
RECURSIVE split(_, _)
split(text, sep) ==
    IF \E i \in 1..Len(text) : text[i] = sep
    THEN LET i == CHOOSE i \in 1..Len(text) :
                    text[i] = sep /\ \A j \in 1..(i - 1) : text[j] # sep
         IN  << SubSeq(text, 1, i - 1) >> \o split(SubSeq(text, i + 1, Len(text)), sep)
    ELSE << text >>

\* the loop over libraries.split( "," ), from item i on: the unpacking of
\* lib.split( ":" ) into three names raises unless there are three segments,
\* and the except clause prints the item
RECURSIVE ParseFrom(_, _, _)
ParseFrom(self, items, i) ==
    IF i > Len(items) THEN self
    ELSE LET segments == split(items[i], ":")
             next == IF Len(segments) = 3
                     THEN [self EXCEPT !.result =
                             Append(@, MavenLib(segments[1], segments[2], segments[3]))]
                     ELSE [self EXCEPT !.printed = Append(@, items[i])]
         IN  Only({ ParseFrom(n, items, i + 1) : n \in {next} })

\* result is the list returned, printed the items reported as malformed
parse_downlod_libaries(libraries) ==
    ParseFrom([result |-> <<>>, printed |-> <<>>], split(libraries, ","), 1)

(***************************************************************************)
(* MavenPom._eval_with_properties                                          *)
(***************************************************************************)
\* the value of the property returned as it is, without evaluating it
_eval_once(properties, val) ==
    IF IsPropertyRef(val)
    THEN IF PropName(val) \in DOMAIN properties
         THEN properties[PropName(val)]
         ELSE <<>>
    ELSE val

RECURSIVE _eval_with_properties(_, _)
_eval_with_properties(properties, val) ==
    IF IsPropertyRef(val)
    THEN IF PropName(val) \in DOMAIN properties
         THEN _eval_with_properties(properties, properties[PropName(val)])
         ELSE <<>>
    ELSE val

(***************************************************************************)
(* Python dict helpers.                                                    *)
(***************************************************************************)
\* d[key] = value
DictSet(d, key, value) ==
    [k \in DOMAIN d \cup {key} |-> IF k = key THEN value ELSE d[k]]

(***************************************************************************)
(* MavenPom._dependency_exist: looks at the first accumulated dependency   *)
(* with the same groupId and artifactId.  d['version'] == dep['version']   *)
(* raises KeyError when either dict has no 'version' key.                  *)
(***************************************************************************)
SameLibrary(d, dep) ==
    d.groupId = dep.groupId /\ d.artifactId = dep.artifactId

_dependency_exist(dependencies, dep) ==
    IF \E i \in 1..Len(dependencies) : SameLibrary(dependencies[i], dep)
    THEN LET i == CHOOSE i \in 1..Len(dependencies) :
                    /\ SameLibrary(dependencies[i], dep)
                    /\ \A j \in 1..(i - 1) : ~SameLibrary(dependencies[j], dep)
             d == dependencies[i]
         IN  IF "version" \notin DOMAIN d \/ "version" \notin DOMAIN dep
             THEN "KeyError"
             ELSE IF d.version = dep.version
                  THEN "True"
                  ELSE "Warning"     \* prints the warning, returns False
    ELSE "False"

(***************************************************************************)
(* MavenPom._create_dependency.  The result is                             *)
(*   [kind |-> "None"]              the element is dropped                 *)
(*   [kind |-> "Dep", dep |-> d]    the dict built for the element         *)
(*   [kind |-> "KeyError"]          _dependency_exist raised               *)
(* and warned tells whether the version warning was printed.               *)
(***************************************************************************)
OptionalValues == { <<"t">>, <<"t", "r", "u", "e">>, <<"y">>, <<"y", "e", "s">>, <<"1">> }
ScopeCompile == <<"c", "o", "m", "p", "i", "l", "e">>
ScopeTest == <<"t", "e", "s", "t">>

IsOptional(dep_elem) ==
    "optional" \in DOMAIN dep_elem /\ lower(dep_elem.optional) \in OptionalValues

IsScopedOut(dep_elem) ==
    /\ "scope" \in DOMAIN dep_elem
    /\ (lower(dep_elem.scope) = ScopeCompile \/ lower(dep_elem.scope) = ScopeTest)

_create_dependency(properties, dependencies, dep_elem) ==
    IF IsOptional(dep_elem) THEN [kind |-> "None", warned |-> FALSE]
    ELSE IF IsScopedOut(dep_elem) THEN [kind |-> "None", warned |-> FALSE]
    ELSE IF "groupId" \in DOMAIN dep_elem /\ "artifactId" \in DOMAIN dep_elem
    THEN LET d0 == [groupId |-> _eval_with_properties(properties, dep_elem.groupId),
                    artifactId |-> _eval_with_properties(properties, dep_elem.artifactId)]
             d1 == IF "scope" \in DOMAIN dep_elem
                   THEN DictSet(d0, "scope", dep_elem.scope) ELSE d0
             dep == IF "version" \in DOMAIN dep_elem
                    THEN DictSet(d1, "version",
                                 _eval_with_properties(properties, dep_elem.version))
                    ELSE d1
             exist == _dependency_exist(dependencies, dep)
         IN  CASE exist = "KeyError" -> [kind |-> "KeyError", warned |-> FALSE]
               [] exist = "True"     -> [kind |-> "None", warned |-> FALSE]
               [] exist = "Warning"  -> [kind |-> "Dep", dep |-> dep, warned |-> TRUE]
               [] OTHER              -> [kind |-> "Dep", dep |-> dep, warned |-> FALSE]
    ELSE [kind |-> "None", warned |-> FALSE]

(***************************************************************************)
(* The extraction passes of MavenPom.__init__ work on the fields           *)
(*   dependencies, dependency_management, warnings, raised                 *)
(* of the object under construction; raised is "" until an exception       *)
(* leaves the constructor.                                                 *)
(***************************************************************************)
\* MavenPom._extract_properties: a later definition overwrites an earlier one
RECURSIVE ExtractPropertiesFrom(_, _, _)
ExtractPropertiesFrom(properties, prop_elems, i) ==
    IF i > Len(prop_elems) THEN properties
    ELSE LET next == IF "text" \in DOMAIN prop_elems[i]
                     THEN DictSet(properties, prop_elems[i].name, prop_elems[i].text)
                     ELSE properties
         IN  Only({ ExtractPropertiesFrom(p, prop_elems, i + 1) : p \in {next} })

\* a name that is already in the table keeps its value
_extract_properties_keep(properties, root) ==
    IF "properties" \notin DOMAIN root THEN properties
    ELSE properties @@ ExtractPropertiesFrom(<<>>, root.properties, 1)

_extract_properties(properties, root) ==
    IF "properties" \notin DOMAIN root THEN properties
    ELSE ExtractPropertiesFrom(properties, root.properties, 1)

\* MavenPom._extract_parent: the parent coordinate is taken as written
HasParent(root) ==
    /\ "parent" \in DOMAIN root
    /\ {"groupId", "artifactId", "version"} \subseteq DOMAIN root.parent

_extract_parent(root) ==
    MavenLib(root.parent.groupId, root.parent.artifactId, root.parent.version)

\* the loop body of _extract_dependency_management, from element i on
RECURSIVE ManagementFrom(_, _, _, _)
ManagementFrom(self, properties, dep_elems, i) ==
    IF i > Len(dep_elems) \/ self.raised # "" THEN self
    ELSE LET r == _create_dependency(properties, self.dependencies, dep_elems[i])
             w == IF r.warned THEN self.warnings + 1 ELSE self.warnings
             next == CASE r.kind = "KeyError" -> [self EXCEPT !.raised = "KeyError"]
                       [] r.kind = "Dep" ->
                            [self EXCEPT !.dependency_management = Append(@, r.dep),
                                         !.warnings = w]
                       [] OTHER -> self
         IN  Only({ ManagementFrom(s, properties, dep_elems, i + 1) : s \in {next} })

\* MavenPom._extract_dependency_management: the list is emptied on every call
_extract_dependency_management(self, properties, root) ==
    LET fresh == [self EXCEPT !.dependency_management = <<>>]
    IN  IF "dependencyManagement" \in DOMAIN root
        THEN ManagementFrom(fresh, properties, root.dependencyManagement, 1)
        ELSE fresh

\* the loop body of _extract_all_dependencies, from element i on
RECURSIVE DependenciesFrom(_, _, _, _)
DependenciesFrom(self, properties, dep_elems, i) ==
    IF i > Len(dep_elems) \/ self.raised # "" THEN self
    ELSE LET r == _create_dependency(properties, self.dependencies, dep_elems[i])
             w == IF r.warned THEN self.warnings + 1 ELSE self.warnings
             next == CASE r.kind = "KeyError" -> [self EXCEPT !.raised = "KeyError"]
                       [] r.kind = "Dep" ->
                            [self EXCEPT !.dependencies = Append(@, r.dep),
                                         !.warnings = w]
                       [] OTHER -> self
         IN  Only({ DependenciesFrom(s, properties, dep_elems, i + 1) : s \in {next} })

_extract_all_dependencies(self, properties, root) ==
    IF "dependencies" \in DOMAIN root
    THEN DependenciesFrom(self, properties, root.dependencies, 1)
    ELSE self

\* deps_elem.iter( 'exclusion' ): every exclusion element, in document order
RECURSIVE ExclusionElems(_, _)
ExclusionElems(dep_elems, i) ==
    IF i > Len(dep_elems) THEN <<>>
    ELSE (IF "exclusions" \in DOMAIN dep_elems[i]
          THEN dep_elems[i].exclusions ELSE <<>>)
         \o ExclusionElems(dep_elems, i + 1)

\* the loop body of _extract_dependency_exclusion: the dict is built and dropped
RECURSIVE ExclusionsFrom(_, _, _, _)
ExclusionsFrom(self, properties, excl_elems, i) ==
    IF i > Len(excl_elems) \/ self.raised # "" THEN self
    ELSE LET r == _create_dependency(properties, self.dependencies, excl_elems[i])
             w == IF r.warned THEN self.warnings + 1 ELSE self.warnings
             next == IF r.kind = "KeyError" THEN [self EXCEPT !.raised = "KeyError"]
                     ELSE [self EXCEPT !.warnings = w]
         IN  Only({ ExclusionsFrom(s, properties, excl_elems, i + 1) : s \in {next} })

_extract_dependency_exclusion(self, properties, root) ==
    IF "dependencies" \in DOMAIN root
    THEN ExclusionsFrom(self, properties, ExclusionElems(root.dependencies, 1), 1)
    ELSE self

\* first loop over _all_poms at the end of MavenPom.__init__
RECURSIVE ManagementPass(_, _, _, _)
ManagementPass(self, properties, all_poms, i) ==
    IF i > Len(all_poms) \/ self.raised # "" THEN self
    ELSE Only({ ManagementPass(s, properties, all_poms, i + 1) :
                    s \in { _extract_dependency_management(self, properties, all_poms[i]) } })

\* second loop over _all_poms at the end of MavenPom.__init__
RECURSIVE DependenciesPass(_, _, _, _)
DependenciesPass(self, properties, all_poms, i) ==
    IF i > Len(all_poms) \/ self.raised # "" THEN self
    ELSE Only({ DependenciesPass(t, properties, all_poms, i + 1) :
                    t \in { _extract_dependency_exclusion(s, properties, all_poms[i]) :
                              s \in { _extract_all_dependencies(self, properties, all_poms[i]) } } })

\* both loops: the lists a MavenPom ends up with once its chain is fetched
ExtractAll(properties, all_poms) ==
    Only({ DependenciesPass(s, properties, all_poms, 1) :
            s \in { ManagementPass([dependencies |-> <<>>, dependency_management |-> <<>>,
                                    warnings |-> 0, raised |-> ""],
                                   properties, all_poms, 1) } })

(***************************************************************************)
(* MavenPom._get_version_from_dependency_management                        *)
(***************************************************************************)
ManagementMatch(properties, dep, groupId, artifactId) ==
    /\ "version" \in DOMAIN dep
    /\ groupId = _eval_with_properties(properties, dep.groupId)
    /\ artifactId = _eval_with_properties(properties, dep.artifactId)

_get_version_from_dependency_management(properties, dependency_management, groupId, artifactId) ==
    LET hits == { i \in 1..Len(dependency_management) :
                    ManagementMatch(properties, dependency_management[i], groupId, artifactId) }
    IN  IF hits = {} THEN <<>>
        ELSE _eval_with_properties(properties,
                dependency_management[CHOOSE i \in hits : \A j \in hits : i <= j].version)

(***************************************************************************)
(* MavenPom.get_all_dependencies                                           *)
(***************************************************************************)
RECURSIVE AllDependenciesFrom(_, _, _, _)
AllDependenciesFrom(properties, dependency_management, dependencies, i) ==
    IF i > Len(dependencies) THEN <<>>
    ELSE LET dep == dependencies[i]
             g == _eval_with_properties(properties, dep.groupId)
             a == _eval_with_properties(properties, dep.artifactId)
             version == IF "version" \notin DOMAIN dep
                        THEN _get_version_from_dependency_management(
                                properties, dependency_management, g, a)
                        ELSE _eval_with_properties(properties, dep.version)
         IN  (IF version # <<>>
              THEN << MavenLib(_eval_with_properties(properties, g),
                               _eval_with_properties(properties, a), version) >>
              ELSE <<>>)
             \o AllDependenciesFrom(properties, dependency_management, dependencies, i + 1)

get_all_dependencies(properties, dependency_management, dependencies) ==
    AllDependenciesFrom(properties, dependency_management, dependencies, 1)

(***************************************************************************)
(* The state of a run of main().                                           *)
(***************************************************************************)
VARIABLES
    base_urls,              \* maven_base_urls, as parse_maven_base_urls returned it
    download_libraries,     \* the MavenLib list parse_downlod_libaries returned
    repository,             \* the POM documents the servers publish, by MavenLib
    lib_index,              \* position of main's for loop in download_libraries
    pc,                     \* the statement the run is at
    _cache,                 \* MavenPomDownloader._cache
    _downloaded_libraries,  \* MavenLibraryDownloader._downloaded_libraries
    stack,                  \* activations of MavenLibraryDownloader.download
    pom,                    \* the MavenPom of the innermost activation
    fetch,                  \* the activation of download_pom_file
    out_dir,                \* the jar files written to the output directory
    faults,                 \* failed requests so far
    pom_requests,           \* bag of <<base_url, MavenLib>>: POM requests sent
    jar_requests,           \* bag of <<lib_index, MavenLib>>: _do_download calls
    resolved,               \* what get_all_dependencies returned, by MavenLib
    exceptions,             \* what main's except clause printed
    call                    \* a function applied on its own: arguments and result

vars == << base_urls, download_libraries, repository, lib_index, pc, _cache,
           _downloaded_libraries, stack, pom, fetch, out_dir, faults,
           pom_requests, jar_requests, resolved, exceptions, call >>

inputs == << base_urls, download_libraries, repository >>

\* no function is applied on its own during a run of main
NoCall == [ fn |-> "" ]

NoPom == [ mavenLib |-> <<>> ]
NoFetch == [ mavenLib |-> <<>> ]

\* the table starts from the properties of the MavenPom built before
NewPom_shared(mavenLib) ==
    [ mavenLib |-> mavenLib,
      _properties |-> DictSet(IF pom # NoPom THEN pom._properties ELSE <<>>,
                              <<"p","r","o","j","e","c","t",".","v","e","r","s","i","o","n">>,
                              mavenLib.version),
      _dependencies |-> <<>>,
      _dependency_management |-> <<>>,
      _lib_base_url |-> <<>>,
      parents |-> << mavenLib >>,
      _all_poms |-> <<>>,
      warnings |-> 0 ]

\* MavenPom.__init__ up to the while loop
NewPom(mavenLib) ==
    [ mavenLib |-> mavenLib,
      _properties |-> DictSet(<<>>, <<"p","r","o","j","e","c","t",".","v","e","r","s","i","o","n">>,
                              mavenLib.version),
      _dependencies |-> <<>>,
      _dependency_management |-> <<>>,
      _lib_base_url |-> <<>>,
      parents |-> << mavenLib >>,
      _all_poms |-> <<>>,
      warnings |-> 0 ]

\* the rest of one iteration of the while loop, once _download_pom returned pom_info
WithPomInfo(self, parent, pom_info) ==
    IF DOMAIN pom_info # {}
    THEN LET root == pom_info.content
         IN  [self EXCEPT
                !._lib_base_url = DictSet(@, parent, pom_info.base_url),
                !._all_poms = Append(@, root),
                !._properties = _extract_properties(@, root),
                !.parents = IF HasParent(root) THEN Append(@, _extract_parent(root)) ELSE @]
    ELSE self

\* parents.pop()
Pop(list) == SubSeq(list, 1, Len(list) - 1)
Top(list) == list[Len(list)]

\* a MavenPom without a document counts as usable too
__nonzero___always(self) == TRUE

\* MavenPom.__nonzero__
__nonzero__(self) == Len(self._all_poms) > 0

\* MavenPom.get_lib_base_url
get_lib_base_url(self, mavenLib) ==
    IF mavenLib \in DOMAIN self._lib_base_url THEN self._lib_base_url[mavenLib] ELSE ""

\* a call of MavenLibraryDownloader.download
Frame(mavenLib) == [ mavenLib |-> mavenLib, deps |-> <<>>, i |-> 0 ]

\* the upper limit of the accepted range included
Accepted_upto300(status_code) == status_code >= 200 /\ status_code <= 300

\* r.status_code >= 200 and r.status_code < 300
Accepted(status_code) == status_code >= 200 /\ status_code < 300

(***************************************************************************)
(* The inputs of a run: the texts, the coordinates and the POM documents   *)
(* the servers publish.                                                    *)
(***************************************************************************)
g == <<"g">>
v10 == <<"1", ".", "0">>
v20 == <<"2", ".", "0">>
v30 == <<"3", ".", "0">>
ver == <<"v", "e", "r">>
base == <<"b", "a", "s", "e">>
grp == <<"g", "r", "p">>
rel == <<"r", "e", "l">>
undef == <<"u", "n", "d", "e", "f">>
parent_ == <<"p", "a", "r", "e", "n", "t">>

\* the text ${name}
Ref(name) == <<"$", "{">> \o name \o <<"}">>

LibA == MavenLib(g, <<"a">>, v10)
LibB == MavenLib(g, <<"b">>, v10)
LibB2 == MavenLib(g, <<"b">>, v20)
LibC == MavenLib(g, <<"c">>, v10)
LibC3 == MavenLib(g, <<"c">>, v30)
LibD == MavenLib(g, <<"d">>, v10)
LibD2 == MavenLib(g, <<"d">>, v20)
LibP == MavenLib(g, parent_, v10)
LibQ == MavenLib(g, <<"q">>, v10)

\* <dependency> elements
Dep(groupId, artifactId, version) ==
    [groupId |-> groupId, artifactId |-> artifactId, version |-> version]
DepNoVersion(groupId, artifactId) ==
    [groupId |-> groupId, artifactId |-> artifactId]
DepOf(mavenLib) == Dep(mavenLib.groupId, mavenLib.artifactId, mavenLib.version)
Scoped(dep_elem, scope) == DictSet(dep_elem, "scope", scope)
Optional(dep_elem, optional) == DictSet(dep_elem, "optional", optional)
Excluding(dep_elem, exclusions) == DictSet(dep_elem, "exclusions", exclusions)
Prop(name, text) == [name |-> name, text |-> text]
ParentOf(mavenLib) == DepOf(mavenLib)

\* a document that only declares the given coordinates as dependencies
DepsPom(libs) == [dependencies |-> [i \in 1..Len(libs) |-> DepOf(libs[i])]]
LeafPom == [properties |-> <<>>]

\* dependency graphs over a, b, c and the unpublished d: chains, diamonds,
\* repeated declarations, cycles
GraphRepositories ==
    { [lib \in {LibA, LibB, LibC} |->
            DepsPom(IF lib = LibA THEN la ELSE IF lib = LibB THEN lb ELSE lc)] :
        la \in { <<LibB, LibC>>, <<LibB, LibD, LibB>> },
        lb \in { <<>>, <<LibC, LibA>>, <<LibD>> },
        lc \in { <<>>, <<LibA>>, <<LibB>> } }

\* g:a:1.0 declares ver=2.0 and the dependency g:b:${ver}
PomVer == [ properties |-> << Prop(ver, v20) >>,
            dependencies |-> << Dep(g, <<"b">>, Ref(ver)) >> ]

\* the parent manages g:c:3.0, the child declares g:c without a version
PomChildOfP == [ parent |-> ParentOf(LibP),
                 dependencies |-> << DepNoVersion(g, <<"c">>) >> ]
PomManaging == [ dependencyManagement |-> << Dep(g, <<"c">>, v30) >> ]

\* the child itself manages g:c:3.0, its parent manages something else
PomSelfManaged == [ parent |-> ParentOf(LibP),
                    dependencyManagement |-> << Dep(g, <<"c">>, Ref(ver)) >>,
                    properties |-> << Prop(ver, v30) >>,
                    dependencies |-> << DepNoVersion(g, <<"c">>), DepOf(LibB) >> ]
PomManagingOther == [ dependencyManagement |-> << Dep(g, <<"d">>, v20) >> ]

\* two declarations of g:d with different versions, then a repeated one
PomConflict == [ dependencies |-> << DepOf(LibD), DepOf(LibD2), DepOf(LibD2), DepOf(LibB) >> ]
\* the second version comes from the parent
PomConflictChild == [ parent |-> ParentOf(LibP),
                      dependencies |-> << DepOf(LibD), DepOf(LibB) >> ]
PomConflictParent == [ dependencies |-> << DepOf(LibD2), DepOf(LibB) >> ]

\* optional and scoped declarations, in the child and in its parent
PomFiltered ==
    [ parent |-> ParentOf(LibP),
      dependencies |-> << Optional(DepOf(LibB), <<"T", "r", "u", "e">>),
                          Scoped(DepOf(LibC), <<"T", "E", "S", "T">>),
                          Scoped(DepOf(LibD), <<"r", "u", "n", "t", "i", "m", "e">>),
                          Optional(DepOf(LibC3), <<"n", "o">>) >> ]
PomFilteredParent ==
    [ dependencies |-> << Scoped(DepOf(LibB2), <<"C", "o", "m", "p", "i", "l", "e">>),
                          Optional(DepOf(LibD2), <<"Y", "E", "S">>),
                          Optional(DepOf(LibQ), <<"1">>),
                          Optional(DepOf(LibA), <<"y">>),
                          Optional(DepOf(LibP), <<"t">>),
                          DepOf(LibB) >> ]

\* the same library declared without and with a version
PomVersionless == [ dependencies |-> << DepNoVersion(g, <<"b">>), DepOf(LibB) >> ]
\* an exclusion that names a library declared after it
PomExcluding == [ dependencies |-> << Excluding(DepOf(LibC), << DepNoVersion(g, <<"b">>) >>),
                                      DepOf(LibB) >> ]
\* an exclusion that names no declared library
PomExcludingOther == [ dependencies |-> << Excluding(DepOf(LibC), << DepNoVersion(g, <<"d">>) >>),
                                           DepOf(LibB) >> ]

\* an undefined group, a placeholder inside other text, an undefined version
PomUnresolved ==
    [ properties |-> << Prop(ver, v20) >>,
      dependencies |-> << Dep(Ref(undef), <<"b">>, v10),
                          Dep(g, <<"c">>, <<"x", "-">> \o Ref(ver)),
                          Dep(g, Ref(ver) \o Ref(ver), v10),
                          Dep(g, <<"d">>, Ref(undef)),
                          DepOf(LibB) >> ]

\* properties that refer to properties of the parent; project.version
PomPropChild ==
    [ parent |-> ParentOf(LibP),
      properties |-> << Prop(ver, Ref(base)), [name |-> undef] >>,
      dependencies |-> << Dep(Ref(grp), <<"b">>, Ref(ver)),
                          Dep(g, <<"c">>, Ref(<<"p","r","o","j","e","c","t",".","v","e","r","s","i","o","n">>)) >> ]
PomPropParent ==
    [ parent |-> ParentOf(LibQ),
      properties |-> << Prop(base, Ref(rel)), Prop(rel, v20), Prop(grp, g) >> ]
PomPropGrandParent ==
    [ properties |-> << Prop(ver, v30) >>,
      dependencies |-> << Dep(g, <<"d">>, Ref(ver)) >> ]

\* the text project.version
project_version == <<"p","r","o","j","e","c","t",".","v","e","r","s","i","o","n">>

\* a document that declares its own coordinate as a dependency
PomSelfDependent == [ dependencies |-> << DepOf(LibA), DepOf(LibB) >> ]
\* the parent declares the coordinate of its child as a dependency
PomDeclaredChild == [ parent |-> ParentOf(LibP),
                      dependencies |-> << DepOf(LibB) >> ]
PomDeclaringParent == [ dependencies |-> << Dep(g, <<"a">>, Ref(project_version)) >> ]

\* the parent defines ver and project.version again
PomOverriddenChild ==
    [ parent |-> ParentOf(LibP),
      properties |-> << Prop(ver, v10) >>,
      dependencies |-> << Dep(g, <<"b">>, Ref(ver)), Dep(g, <<"c">>, Ref(project_version)) >> ]
PomOverridingParent ==
    [ properties |-> << Prop(ver, v20), Prop(project_version, v30) >> ]

\* g:a:1.0 defines ver; its dependency g:b:1.0 refers to ver without defining it
PomForeignDef == [ properties |-> << Prop(ver, v20) >>,
                   dependencies |-> << DepOf(LibB) >> ]
PomForeignRef == [ dependencies |-> << Dep(g, <<"c">>, Ref(ver)),
                                       Dep(g, <<"d">>, Ref(project_version)) >> ]

Published(libs) == [lib \in libs |-> LeafPom]

PomRepositories ==
    { (LibA :> PomVer) @@ Published({LibB2}),
      (LibA :> PomChildOfP) @@ (LibP :> PomManaging) @@ Published({LibC3}),
      (LibA :> PomSelfManaged) @@ (LibP :> PomManagingOther) @@ Published({LibB, LibC3}),
      (LibA :> PomConflict) @@ Published({LibB, LibD, LibD2}),
      (LibA :> PomConflictChild) @@ (LibP :> PomConflictParent) @@ Published({LibB, LibD}),
      (LibA :> PomFiltered) @@ (LibP :> PomFilteredParent) @@ Published({LibB, LibD, LibC3}),
      (LibA :> DepsPom(<<LibC, LibB>>)) @@ (LibC :> PomVersionless) @@ Published({LibB}),
      (LibA :> PomExcluding) @@ Published({LibB, LibC}),
      (LibA :> PomExcludingOther) @@ Published({LibB, LibC}),
      (LibA :> PomUnresolved) @@ Published({LibB}),
      (LibA :> PomPropChild) @@ (LibP :> PomPropParent) @@ (LibB :> PomPropChild)
          @@ Published({LibB2, LibC}),
      (LibA :> PomPropChild) @@ (LibP :> PomPropParent) @@ (LibQ :> PomPropGrandParent)
          @@ Published({LibB2, LibC}),
      (LibA :> PomSelfDependent) @@ Published({LibB}),
      (LibA :> PomDeclaredChild) @@ (LibP :> PomDeclaringParent) @@ Published({LibB}),
      (LibA :> PomOverriddenChild) @@ (LibP :> PomOverridingParent)
          @@ Published({LibB2, LibC3}),
      (LibA :> PomForeignDef) @@ (LibB :> PomForeignRef) @@ Published({LibD}) }

Repositories == GraphRepositories \cup PomRepositories

\* the base urls main works with: two locations, possibly given twice
BaseUrlPool == {"http://r1", "http://r2"}
BaseUrlLists ==
    { s \in UNION { [1..n -> BaseUrlPool] : n \in 1..MaxUrls } : s[1] = "http://r1" }

\* the libraries main works with
LibraryPool == {LibA, LibB}
LibraryLists ==
    { s \in UNION { [1..n -> LibraryPool] : n \in 1..MaxLibraries } : s[1] = LibA }

Init ==
    /\ base_urls \in BaseUrlLists
    /\ download_libraries \in LibraryLists
    /\ repository \in Repositories
    /\ lib_index = 1
    /\ pc = "main"
    /\ _cache = <<>>
    /\ _downloaded_libraries = <<>>
    /\ stack = <<>>
    /\ pom = NoPom
    /\ fetch = NoFetch
    /\ out_dir = {}
    /\ faults = 0
    /\ pom_requests = EmptyBag
    /\ jar_requests = EmptyBag
    /\ resolved = <<>>
    /\ exceptions = <<>>
    /\ call = NoCall


\* status codes a server answers with
StatusCodes == {199, 200, 299, 300, 404}

\* os.path.basename( mavenLib.relative_jar_path() )
JarFileName(mavenLib) ==
    mavenLib.artifactId \o <<"-">> \o mavenLib.version \o <<".", "j", "a", "r">>

(***************************************************************************)
(* main(): for lib in download_libraries                                   *)
(***************************************************************************)
\* one iteration: a new MavenLibraryDownloader, and the call download( lib )
main_loop ==
    /\ pc = "main"
    /\ lib_index <= Len(download_libraries)
    /\ _downloaded_libraries' = <<>>
    /\ stack' = << Frame(download_libraries[lib_index]) >>
    /\ pom' = NewPom(download_libraries[lib_index])
    /\ pc' = "pom"
    /\ UNCHANGED << call, inputs, lib_index, _cache, fetch, out_dir, faults,
                    pom_requests, jar_requests, resolved, exceptions >>

\* the loop is exhausted
main_exit ==
    /\ pc = "main"
    /\ lib_index > Len(download_libraries)
    /\ pc' = "done"
    /\ UNCHANGED << call, inputs, lib_index, _cache, _downloaded_libraries, stack, pom,
                    fetch, out_dir, faults, pom_requests, jar_requests, resolved,
                    exceptions >>

(***************************************************************************)
(* MavenPom.__init__: while len( parents ) > 0                             *)
(***************************************************************************)
\* download_pom_file finds the coordinate in the cache: the whole iteration
pom_cached ==
    /\ pc = "pom"
    /\ Len(pom.parents) > 0
    /\ Top(pom.parents) \in DOMAIN _cache
    /\ pom' = WithPomInfo([pom EXCEPT !.parents = Pop(@)], Top(pom.parents),
                          _cache[Top(pom.parents)])
    /\ UNCHANGED << call, inputs, lib_index, pc, _cache, _downloaded_libraries, stack,
                    fetch, out_dir, faults, pom_requests, jar_requests, resolved,
                    exceptions >>

\* download_pom_file does not find it: the loop over the base urls starts
pom_fetch ==
    /\ pc = "pom"
    /\ Len(pom.parents) > 0
    /\ Top(pom.parents) \notin DOMAIN _cache
    /\ pom' = [pom EXCEPT !.parents = Pop(@)]
    /\ fetch' = [ mavenLib |-> Top(pom.parents), i |-> 1, result |-> <<>>,
                  responses |-> <<>> ]
    /\ pc' = "fetch"
    /\ UNCHANGED << call, inputs, lib_index, _cache, _downloaded_libraries, stack,
                    out_dir, faults, pom_requests, jar_requests, resolved,
                    exceptions >>

(***************************************************************************)
(* MavenPomDownloader.download_pom_file: for base_url in self._base_urls   *)
(***************************************************************************)
\* the body a server sends with a refusal
ErrorPage == [html |-> <<>>]

\* what requests.get can do for the POM of mavenLib: a response with a status
\* code (a success only with the published document), or an exception
Responses(mavenLib) ==
    { [status_code |-> c, text |-> repository[mavenLib]] :
        c \in IF mavenLib \in DOMAIN repository
              THEN StatusCodes \cap 200..299 ELSE {} }
    \cup { [status_code |-> c, text |-> ErrorPage] : c \in StatusCodes \ 200..299 }
    \cup { [exception |-> "RequestException"] }

\* a published document refused, or a transport error
IsFault(mavenLib, r) ==
    \/ "exception" \in DOMAIN r
    \/ mavenLib \in DOMAIN repository /\ r.status_code \notin 200..299

\* one iteration of the loop
request_pom ==
    /\ pc = "fetch"
    /\ fetch.i <= Len(base_urls)
    /\ \E r \in Responses(fetch.mavenLib) :
        LET base_url == base_urls[fetch.i] IN
        /\ IsFault(fetch.mavenLib, r) => faults < MaxFaults
        /\ faults' = IF IsFault(fetch.mavenLib, r) THEN faults + 1 ELSE faults
        /\ pom_requests' = pom_requests (+) SetToBag({ <<base_url, fetch.mavenLib>> })
        /\ fetch' = IF "status_code" \in DOMAIN r /\ Accepted(r.status_code)
                    THEN [fetch EXCEPT
                            !.result = [content |-> r.text, base_url |-> base_url],
                            !.i = Len(base_urls) + 1,        \* break
                            !.responses = Append(@, [url |-> base_url, r |-> r])]
                    ELSE [fetch EXCEPT
                            !.i = @ + 1,
                            !.responses = Append(@, [url |-> base_url, r |-> r])]
    /\ UNCHANGED << call, inputs, lib_index, pc, _cache, _downloaded_libraries, stack,
                    pom, out_dir, jar_requests, resolved, exceptions >>

\* the result is cached and returned; MavenPom.__init__ finishes its iteration
download_pom_file_return ==
    /\ pc = "fetch"
    /\ fetch.i > Len(base_urls)
    /\ _cache' = DictSet(_cache, fetch.mavenLib, fetch.result)
    /\ pom' = WithPomInfo(pom, fetch.mavenLib, fetch.result)
    /\ fetch' = NoFetch
    /\ pc' = "pom"
    /\ UNCHANGED << call, inputs, lib_index, _downloaded_libraries, stack, out_dir,
                    faults, pom_requests, jar_requests, resolved, exceptions >>

(***************************************************************************)
(* MavenPom.__init__: the two loops over _all_poms                         *)
(***************************************************************************)
pom_extract ==
    /\ pc = "pom"
    /\ Len(pom.parents) = 0
    /\ LET e == ExtractAll(pom._properties, pom._all_poms) IN
        /\ e.raised = ""
        /\ pom' = [pom EXCEPT !._dependencies = e.dependencies,
                              !._dependency_management = e.dependency_management,
                              !.warnings = e.warnings]
    /\ pc' = "download"
    /\ UNCHANGED << call, inputs, lib_index, _cache, _downloaded_libraries, stack, fetch,
                    out_dir, faults, pom_requests, jar_requests, resolved,
                    exceptions >>

\* an exception leaves the constructor and every download call, up to main
pom_raise ==
    /\ pc = "pom"
    /\ Len(pom.parents) = 0
    /\ LET e == ExtractAll(pom._properties, pom._all_poms) IN
        /\ e.raised # ""
        /\ exceptions' = Append(exceptions, [lib_index |-> lib_index, type |-> e.raised])
    /\ stack' = <<>>
    /\ pom' = NoPom
    /\ lib_index' = lib_index + 1
    /\ pc' = "main"
    /\ UNCHANGED << call, inputs, _cache, _downloaded_libraries, fetch, out_dir, faults,
                    pom_requests, jar_requests, resolved >>

(***************************************************************************)
(* MavenLibraryDownloader.download                                         *)
(***************************************************************************)
\* the return leaves every download call at once, as an exception would
Return_all ==
    /\ stack' = <<>>
    /\ pom' = NoPom
    /\ lib_index' = lib_index + 1
    /\ pc' = "main"

\* the return of the innermost download call
Return ==
    /\ stack' = Pop(stack)
    /\ pom' = NoPom
    /\ IF Len(stack) = 1
       THEN lib_index' = lib_index + 1 /\ pc' = "main"
       ELSE lib_index' = lib_index /\ pc' = "deps"

\* if pom: is false
download_nothing ==
    /\ pc = "download"
    /\ ~__nonzero__(pom)
    /\ Return
    /\ UNCHANGED << call, inputs, _cache, _downloaded_libraries, fetch, out_dir, faults,
                    pom_requests, jar_requests, resolved, exceptions >>

\* if pom: is true, down to the test of base_url
download_begin ==
    /\ pc = "download"
    /\ __nonzero__(pom)
    /\ LET mavenLib == Top(stack).mavenLib
           deps == get_all_dependencies(pom._properties, pom._dependency_management,
                                        pom._dependencies)
           base_url == get_lib_base_url(pom, mavenLib)
       IN  /\ stack' = [stack EXCEPT ![Len(stack)].deps = deps]
           /\ resolved' = DictSet(resolved, mavenLib, deps)
           /\ IF base_url # ""
              THEN /\ pc' = "do_download"
                   /\ UNCHANGED _downloaded_libraries
              ELSE /\ pc' = "deps"
                   /\ _downloaded_libraries' = Append(_downloaded_libraries, mavenLib)
    /\ UNCHANGED << call, inputs, lib_index, _cache, pom, fetch, out_dir, faults,
                    pom_requests, jar_requests, exceptions >>

\* the coordinate is not appended to the visited list
_do_download_unrecorded ==
    /\ pc = "do_download"
    /\ LET mavenLib == Top(stack).mavenLib IN
        /\ jar_requests' = jar_requests (+) SetToBag({ <<lib_index, mavenLib>> })
        /\ \/ /\ out_dir' = out_dir \cup { JarFileName(mavenLib) }
              /\ UNCHANGED faults
           \/ /\ faults < MaxFaults
              /\ faults' = faults + 1
              /\ UNCHANGED out_dir
    /\ pc' = "deps"
    /\ UNCHANGED << call, inputs, lib_index, _cache, _downloaded_libraries, stack, pom,
                    fetch, pom_requests, resolved, exceptions >>

\* _do_download, whose failure is swallowed, and the append that follows it
_do_download ==
    /\ pc = "do_download"
    /\ LET mavenLib == Top(stack).mavenLib IN
        /\ jar_requests' = jar_requests (+) SetToBag({ <<lib_index, mavenLib>> })
        /\ \/ /\ out_dir' = out_dir \cup { JarFileName(mavenLib) }
              /\ UNCHANGED faults
           \/ /\ faults < MaxFaults
              /\ faults' = faults + 1
              /\ UNCHANGED out_dir
        /\ _downloaded_libraries' = Append(_downloaded_libraries, mavenLib)
    /\ pc' = "deps"
    /\ UNCHANGED << call, inputs, lib_index, _cache, stack, pom, fetch, pom_requests,
                    resolved, exceptions >>

\* the test of the visited list left out
NotDownloaded_unchecked(dep, downloaded_libraries) == TRUE

\* if dep not in self._downloaded_libraries
NotDownloaded(dep, downloaded_libraries) == ~InList(dep, downloaded_libraries)

\* the loop stays on the same dep
NextDep_same(frame) == frame.i

\* for dep in deps: the position of the next dep
NextDep(frame) == frame.i + 1

\* for dep in deps: the dependency was downloaded already
deps_skip ==
    /\ pc = "deps"
    /\ Top(stack).i < Len(Top(stack).deps)
    /\ ~NotDownloaded(Top(stack).deps[Top(stack).i + 1], _downloaded_libraries)
    /\ stack' = [stack EXCEPT ![Len(stack)].i = NextDep(Top(stack))]
    /\ pom' = NoPom
    /\ UNCHANGED << call, inputs, lib_index, pc, _cache, _downloaded_libraries, fetch,
                    out_dir, faults, pom_requests, jar_requests, resolved,
                    exceptions >>

\* for dep in deps: self.download( dep )
deps_download ==
    /\ pc = "deps"
    /\ Top(stack).i < Len(Top(stack).deps)
    /\ NotDownloaded(Top(stack).deps[Top(stack).i + 1], _downloaded_libraries)
    /\ stack' = Append([stack EXCEPT ![Len(stack)].i = NextDep(Top(stack))],
                       Frame(Top(stack).deps[Top(stack).i + 1]))
    /\ pom' = NewPom(Top(stack).deps[Top(stack).i + 1])
    /\ pc' = "pom"
    /\ UNCHANGED << call, inputs, lib_index, _cache, _downloaded_libraries, fetch,
                    out_dir, faults, pom_requests, jar_requests, resolved,
                    exceptions >>

\* the loop is exhausted
download_return ==
    /\ pc = "deps"
    /\ Top(stack).i = Len(Top(stack).deps)
    /\ Return
    /\ UNCHANGED << call, inputs, _cache, _downloaded_libraries, fetch, out_dir, faults,
                    pom_requests, jar_requests, resolved, exceptions >>

Next ==
    \/ main_loop
    \/ main_exit
    \/ pom_cached
    \/ pom_fetch
    \/ request_pom
    \/ download_pom_file_return
    \/ pom_extract
    \/ pom_raise
    \/ download_nothing
    \/ download_begin
    \/ _do_download
    \/ deps_skip
    \/ deps_download
    \/ download_return

Spec == Init /\ [][Next]_vars

\* the interpreter keeps running the program until main returns
LiveSpec == Spec /\ WF_vars(Next)

(***************************************************************************)
(* The functions that work on text, each applied on its own to arguments   *)
(* drawn from the sets below: parse_downlod_libaries, MavenLib.__repr__    *)
(* followed by parse_downlod_libaries, and MavenPom._eval_with_properties. *)
(***************************************************************************)
\* largest number of texts between the ':' of one item of --libraries
MaxSegments == 4
\* largest number of items between the ',' of --libraries
MaxItems == 2

\* sep.join( texts )
RECURSIVE join(_, _)
join(sep, texts) ==
    IF Len(texts) = 0 THEN <<>>
    ELSE IF Len(texts) = 1 THEN texts[1]
    ELSE texts[1] \o <<sep>> \o join(sep, Tail(texts))

\* values of --libraries: items of one to MaxSegments segments, empty or not
SegmentTexts == { <<>>, g }
ItemTexts ==
    { join(":", segments) :
        segments \in UNION { [1..n -> SegmentTexts] : n \in 1..MaxSegments } }
LibrariesTexts ==
    { join(",", items) : items \in UNION { [1..n -> ItemTexts] : n \in 1..MaxItems } }

\* coordinates: fields that are empty, or hold a ':' or a ','
FieldTexts == { <<>>, g, v10, <<"1", ",", "0">>, <<"g", ":", "a">> }
Coordinates ==
    { MavenLib(groupId, artifactId, version) :
        groupId \in FieldTexts, artifactId \in FieldTexts, version \in FieldTexts }

\* texts to evaluate, and the texts of property elements
ValueTexts ==
    { <<>>, v20, Ref(ver), Ref(base), Ref(rel), Ref(undef), Ref(<<>>),
      <<"$", "{">>, <<"$", "{">> \o ver, <<"x", "-">> \o Ref(rel),
      Ref(ver) \o Ref(rel), Ref(rel) \o <<"-", "x">> }
PropertyTexts == ValueTexts \ { <<>> }
PropertyNames == { ver, base, rel }

\* the evaluation of val returns within k lookups
RECURSIVE Returns(_, _, _)
Returns(properties, val, k) ==
    IF ~IsPropertyRef(val) \/ PropName(val) \notin DOMAIN properties THEN TRUE
    ELSE IF k = 0 THEN FALSE
    ELSE Returns(properties, properties[PropName(val)], k - 1)

\* property tables in which no property refers back to itself
PropertyTables ==
    { properties \in UNION { [names -> PropertyTexts] : names \in SUBSET PropertyNames } :
        \A name \in DOMAIN properties :
            Returns(properties, properties[name], Cardinality(DOMAIN properties)) }

\* no run of main is under way
FnInit ==
    /\ call = NoCall
    /\ base_urls = <<>>
    /\ download_libraries = <<>>
    /\ repository = <<>>
    /\ lib_index = 1
    /\ pc = "args"
    /\ _cache = <<>>
    /\ _downloaded_libraries = <<>>
    /\ stack = <<>>
    /\ pom = NoPom
    /\ fetch = NoFetch
    /\ out_dir = {}
    /\ faults = 0
    /\ pom_requests = EmptyBag
    /\ jar_requests = EmptyBag
    /\ resolved = <<>>
    /\ exceptions = <<>>

run == << inputs, lib_index, pc, _cache, _downloaded_libraries, stack, pom, fetch,
          out_dir, faults, pom_requests, jar_requests, resolved, exceptions >>

\* parse_downlod_libaries( libraries )
call_parse_downlod_libaries ==
    /\ call = NoCall
    /\ \E libraries \in LibrariesTexts :
          call' = [ fn |-> "parse_downlod_libaries",
                    libraries |-> libraries,
                    returned |-> parse_downlod_libaries(libraries) ]
    /\ UNCHANGED run

\* parse_downlod_libaries( repr( self ) )
call___repr__ ==
    /\ call = NoCall
    /\ \E self \in Coordinates :
          call' = [ fn |-> "__repr__",
                    self |-> self,
                    text |-> __repr__(self),
                    returned |-> parse_downlod_libaries(__repr__(self)) ]
    /\ UNCHANGED run

\* self._eval_with_properties( val ), and the evaluation of what it returned
call__eval_with_properties ==
    /\ call = NoCall
    /\ \E properties \in PropertyTables, val \in ValueTexts :
          call' = [ fn |-> "_eval_with_properties",
                    properties |-> properties,
                    val |-> val,
                    returned |-> _eval_with_properties(properties, val),
                    again |-> _eval_with_properties(properties,
                                    _eval_with_properties(properties, val)) ]
    /\ UNCHANGED run

FnNext ==
    \/ call_parse_downlod_libaries
    \/ call___repr__
    \/ call__eval_with_properties

FnSpec == FnInit /\ [][FnNext]_vars

(***************************************************************************)
(* Properties of the traversal and of the fetcher.                         *)
(***************************************************************************)
NoDuplicates(list) ==
    \A i, j \in 1..Len(list) : list[i] = list[j] => i = j

IsPrefix(s, t) == Len(s) <= Len(t) /\ SubSeq(t, 1, Len(s)) = s

\* the innermost download call has not yet appended its coordinate
BeforeAppend == pc \in {"pom", "fetch", "download", "do_download"}

\* C1: during one traversal started by main, _do_download is called at most
\* once per coordinate, download is never entered for a coordinate that is
\* in _downloaded_libraries, that list never holds a coordinate twice, and
\* it only grows (the list of a traversal starts empty in main_loop).
C1_VisitedOnce ==
    /\ [](/\ \A e \in BagToSet(jar_requests) : CopiesIn(e, jar_requests) <= 1
          /\ NoDuplicates(_downloaded_libraries)
          /\ (BeforeAppend /\ stack # <<>>) =>
                ~InList(Top(stack).mavenLib, _downloaded_libraries))
    /\ [][pc # "main" => IsPrefix(_downloaded_libraries, _downloaded_libraries')]_vars

\* a dependency cycle is closed: the dep the innermost call has just skipped
\* is the coordinate of one of its callers, retrieved once
C1_CycleSkipped ==
    /\ pc = "deps"
    /\ Len(stack) >= 2
    /\ Top(stack).i >= 1
    /\ \E k \in 1..(Len(stack) - 1) :
          /\ stack[k].mavenLib = Top(stack).deps[Top(stack).i]
          /\ InList(stack[k].mavenLib, _downloaded_libraries)
          /\ CopiesIn(<<lib_index, stack[k].mavenLib>>, jar_requests) = 1

\* the loop of download_pom_file over the base urls has ended
FetchEnded == pc = "fetch" /\ fetch.i > Len(base_urls)

\* the positions of the responses with a status in 200..299
Successes(responses) ==
    { k \in 1..Len(responses) :
        /\ "status_code" \in DOMAIN responses[k].r
        /\ responses[k].r.status_code \in 200..299 }

\* C2: download_pom_file contacts the base urls in list order; it returns the
\* document and the base url of the first response with a status in 200..299
\* and contacts no base url after it; it goes on after any other status and
\* after an exception; when no base url succeeds it returns the empty dict
\* and raises nothing.  MavenPom records the returned base url for the
\* coordinate.
C2_FirstSuccess ==
    /\ pc = "fetch" =>
          /\ Len(fetch.responses) <= Len(base_urls)
          /\ \A k \in 1..Len(fetch.responses) : fetch.responses[k].url = base_urls[k]
    /\ FetchEnded =>
          LET ok == Successes(fetch.responses) IN
          IF ok = {}
          THEN /\ fetch.result = <<>>
               /\ Len(fetch.responses) = Len(base_urls)
          ELSE LET k == CHOOSE k \in ok : \A j \in ok : k <= j IN
               /\ fetch.result = [content |-> fetch.responses[k].r.text,
                                  base_url |-> base_urls[k]]
               /\ fetch.result.content = repository[fetch.mavenLib]
               /\ Len(fetch.responses) = k
    /\ pom # NoPom =>
          \A lib \in DOMAIN pom._lib_base_url :
              /\ lib \in DOMAIN _cache
              /\ DOMAIN _cache[lib] # {}
              /\ pom._lib_base_url[lib] = _cache[lib].base_url
    /\ \A n \in 1..Len(exceptions) : exceptions[n].type # "RequestException"

\* the first base url refuses, a different second one succeeds
C2_SecondLocationServes ==
    /\ FetchEnded
    /\ Len(fetch.responses) = 2
    /\ base_urls[1] # base_urls[2]
    /\ "status_code" \in DOMAIN fetch.responses[1].r
    /\ fetch.responses[1].r.status_code = 404
    /\ "status_code" \in DOMAIN fetch.responses[2].r
    /\ fetch.responses[2].r.status_code = 200
    /\ fetch.result.base_url = base_urls[2]

\* C3: once download_pom_file has returned for a coordinate, a later lookup
\* returns the same result without a request: over the run each base
\* location is contacted at most once per coordinate.  (Stated as claimed;
\* main passes on a base url that is given twice with --maven_urls.)
C3_EachLocationOncePerCoordinate ==
    \A e \in BagToSet(pom_requests) : CopiesIn(e, pom_requests) <= 1

(***************************************************************************)
(* Properties of the MavenPom of the innermost download call.              *)
(***************************************************************************)
\* download has called get_all_dependencies on its MavenPom
ModelBuilt == pom # NoPom /\ pc \in {"do_download", "deps"}

\* what get_all_dependencies returned to the innermost download call
ResolvedDependencies == Top(stack).deps

\* interpolation through the property table of the MavenPom
Interpolated(val) == _eval_with_properties(pom._properties, val)

DeclaredDependencies(root) ==
    IF "dependencies" \in DOMAIN root THEN root.dependencies ELSE <<>>
DeclaredManagement(root) ==
    IF "dependencyManagement" \in DOMAIN root THEN root.dependencyManagement ELSE <<>>

\* the dependency declarations of the fetched chain: <<document, position>>
Declarations ==
    UNION { { <<n, k>> : k \in 1..Len(DeclaredDependencies(pom._all_poms[n])) } :
            n \in 1..Len(pom._all_poms) }
Declaration(nk) == DeclaredDependencies(pom._all_poms[nk[1]])[nk[2]]

\* the dependency-management entries of the chain, documents in fetch order
RECURSIVE ManagementEntriesFrom(_, _)
ManagementEntriesFrom(all_poms, n) ==
    IF n > Len(all_poms) THEN <<>>
    ELSE DeclaredManagement(all_poms[n]) \o ManagementEntriesFrom(all_poms, n + 1)
ManagementEntries == ManagementEntriesFrom(pom._all_poms, 1)

\* optional is one of t, true, y, yes, 1 or scope is compile or test, in any case
FilteredOut(dep_elem) ==
    \/ /\ "optional" \in DOMAIN dep_elem
       /\ \E o \in { <<"t">>, <<"t","r","u","e">>, <<"y">>, <<"y","e","s">>, <<"1">> } :
             lower(dep_elem.optional) = o
    \/ /\ "scope" \in DOMAIN dep_elem
       /\ \E sc \in { <<"c","o","m","p","i","l","e">>, <<"t","e","s","t">> } :
             lower(dep_elem.scope) = sc

Named(dep_elem) == {"groupId", "artifactId"} \subseteq DOMAIN dep_elem

\* the entries that manage the library of a declaration, with a version
ManagedBy(dep_elem) ==
    { m \in 1..Len(ManagementEntries) :
        /\ {"groupId", "artifactId", "version"} \subseteq DOMAIN ManagementEntries[m]
        /\ Interpolated(ManagementEntries[m].groupId) = Interpolated(dep_elem.groupId)
        /\ Interpolated(ManagementEntries[m].artifactId) = Interpolated(dep_elem.artifactId) }

\* C4: a declaration without a version that is not filtered out, and whose
\* library some fetched document of the chain manages with a version, is in
\* the result of get_all_dependencies with the interpolated version of the
\* first managing entry (documents in fetch order, then declaration order).
C4_ManagedVersionFromAnyDocument ==
    ModelBuilt =>
        \A nk \in Declarations :
            LET d == Declaration(nk) IN
            (Named(d) /\ ~FilteredOut(d) /\ "version" \notin DOMAIN d /\ ManagedBy(d) # {}) =>
                LET m == CHOOSE m \in ManagedBy(d) : \A o \in ManagedBy(d) : m <= o IN
                InList(MavenLib(Interpolated(d.groupId), Interpolated(d.artifactId),
                                Interpolated(ManagementEntries[m].version)),
                       ResolvedDependencies)

\* C5: the result of get_all_dependencies never holds two entries with the
\* same groupId and artifactId: of two declarations of a library with
\* different versions only the first is kept.
C5_OneVersionPerLibrary ==
    ModelBuilt =>
        \A i, j \in 1..Len(ResolvedDependencies) :
            (/\ ResolvedDependencies[i].groupId = ResolvedDependencies[j].groupId
             /\ ResolvedDependencies[i].artifactId = ResolvedDependencies[j].artifactId)
                => i = j

\* the chain of a MavenPom is fetched and its two extraction loops are next
ChainFetched == pc = "pom" /\ Len(pom.parents) = 0 /\ Len(pom._all_poms) > 0

\* a declaration with no scope and no optional element and a version that
\* evaluates to a non-empty text
PlainDeclaration(dep_elem) ==
    /\ Named(dep_elem)
    /\ "scope" \notin DOMAIN dep_elem
    /\ "optional" \notin DOMAIN dep_elem
    /\ "version" \in DOMAIN dep_elem
    /\ Interpolated(dep_elem.version) # <<>>

\* a declaration an entry of the result can come from
SourceOf(lib, dep_elem) ==
    /\ Named(dep_elem)
    /\ ~FilteredOut(dep_elem)
    /\ Interpolated(dep_elem.groupId) = lib.groupId
    /\ Interpolated(dep_elem.artifactId) = lib.artifactId
    /\ "version" \in DOMAIN dep_elem => Interpolated(dep_elem.version) = lib.version

\* C6: a declaration that is optional (t, true, y, yes, 1) or scoped compile
\* or test, in any case, contributes no entry to the result of
\* get_all_dependencies: every entry comes from a declaration that is not
\* filtered out; and a declaration of any document of the chain with no
\* scope, no optional flag and a non-empty version has its coordinate in the
\* result, which the MavenPom therefore delivers.
C6_FilterByScopeAndOptional ==
    /\ [](ModelBuilt =>
            /\ \A k \in 1..Len(ResolvedDependencies) :
                  \E nk \in Declarations : SourceOf(ResolvedDependencies[k], Declaration(nk))
            /\ \A nk \in Declarations :
                  PlainDeclaration(Declaration(nk)) =>
                      InList(MavenLib(Interpolated(Declaration(nk).groupId),
                                      Interpolated(Declaration(nk).artifactId),
                                      Interpolated(Declaration(nk).version)),
                             ResolvedDependencies))
    /\ [][(ChainFetched /\ \E nk \in Declarations : PlainDeclaration(Declaration(nk)))
            => pc' = "download"]_vars

\* the text of the last definition of a property in the fetched chain
\* (documents in fetch order, then the order in the document); project.version
\* is the version of the coordinate until a document defines it
DeclaredProperties(root) ==
    IF "properties" \in DOMAIN root THEN root.properties ELSE <<>>

PropertyDefinitions(name) ==
    UNION { { <<n, k>> : k \in { k \in 1..Len(DeclaredProperties(pom._all_poms[n])) :
                                    /\ DeclaredProperties(pom._all_poms[n])[k].name = name
                                    /\ "text" \in DOMAIN DeclaredProperties(pom._all_poms[n])[k] } } :
            n \in 1..Len(pom._all_poms) }

Later(nk, ml) == nk[1] > ml[1] \/ (nk[1] = ml[1] /\ nk[2] >= ml[2])

Defined(name) ==
    \/ PropertyDefinitions(name) # {}
    \/ name = <<"p","r","o","j","e","c","t",".","v","e","r","s","i","o","n">>

DefinitionOf(name) ==
    IF PropertyDefinitions(name) # {}
    THEN LET nk == CHOOSE nk \in PropertyDefinitions(name) :
                        \A ml \in PropertyDefinitions(name) : Later(nk, ml)
         IN  pom._all_poms[nk[1]].properties[nk[2]].text
    ELSE pom.mavenLib.version

\* one step from a text of the form ${name} to the definition of name
Dereferenced(val) ==
    IF Len(val) >= 3 /\ SubSeq(val, 1, 2) = <<"$", "{">> /\ val[Len(val)] = "}"
    THEN IF Defined(SubSeq(val, 3, Len(val) - 1))
         THEN DefinitionOf(SubSeq(val, 3, Len(val) - 1))
         ELSE <<>>
    ELSE val

\* the literal a text stands for: references followed, at most three deep
Literal(val) == Dereferenced(Dereferenced(Dereferenced(val)))

\* C7: a declared version, group or artifact of the form ${p} is resolved by
\* following the property references through the properties of every fetched
\* document of the chain; g:a:1.0 with the property ver=2.0 and the single
\* dependency g:b:${ver} has exactly the resolved dependencies [g:b:2.0].
C7_PlaceholderResolved ==
    ModelBuilt =>
        /\ (pom.mavenLib = LibA /\ pom._all_poms = << PomVer >>) =>
                ResolvedDependencies = << LibB2 >>
        /\ \A nk \in Declarations :
              LET d == Declaration(nk) IN
              (Named(d) /\ ~FilteredOut(d) /\ "version" \in DOMAIN d /\ Literal(d.version) # <<>>)
                  => InList(MavenLib(Literal(d.groupId), Literal(d.artifactId),
                                     Literal(d.version)),
                            ResolvedDependencies)

\* the end-to-end case, and a version found three references deep in the parent
C7_VerResolved ==
    /\ ModelBuilt
    /\ \/ /\ pom.mavenLib = LibA
          /\ pom._all_poms = << PomVer >>
          /\ ResolvedDependencies = << LibB2 >>
       \/ /\ pom._all_poms = << PomPropChild, PomPropParent >>
          /\ InList(LibB2, ResolvedDependencies)

\* text contains ${ ... }
HasPlaceholder(text) ==
    \E i, j \in 1..Len(text) :
        i + 1 < j /\ text[i] = "$" /\ text[i + 1] = "{" /\ text[j] = "}"

Concrete(text) == text # <<>> /\ ~HasPlaceholder(text)

\* C8: every coordinate returned by get_all_dependencies has a non-empty
\* group, artifact and version, none of which contains a ${...} placeholder.
C8_ResolvedAreConcrete ==
    ModelBuilt =>
        \A k \in 1..Len(ResolvedDependencies) :
            /\ Concrete(ResolvedDependencies[k].groupId)
            /\ Concrete(ResolvedDependencies[k].artifactId)
            /\ Concrete(ResolvedDependencies[k].version)

(***************************************************************************)
(* Failures and termination of the traversal.                              *)
(***************************************************************************)
\* no base url delivered the POM of the coordinate
Unavailable(lib) == lib \in DOMAIN _cache /\ DOMAIN _cache[lib] = {}

\* the traversal is through with a dependency
Processed(dep) == InList(dep, _downloaded_libraries) \/ Unavailable(dep)

\* every dep a download call has taken from its list is processed, or is the
\* coordinate of the call it is waiting for
DepsProcessedInOrder ==
    \A n \in 1..Len(stack) : \A k \in 1..stack[n].i :
        \/ Processed(stack[n].deps[k])
        \/ /\ n < Len(stack)
           /\ k = stack[n].i
           /\ stack[n + 1].mavenLib = stack[n].deps[k]

\* a coordinate without metadata gets no package and no dependencies
UnavailableYieldsNothing ==
    \A lib \in DOMAIN _cache :
        Unavailable(lib) =>
            /\ ~InList(lib, _downloaded_libraries)
            /\ lib \notin DOMAIN resolved
            /\ \A n \in 1..Len(download_libraries) : CopiesIn(<<n, lib>>, jar_requests) = 0

\* a request fails: a refused POM, a transport error, a jar that is not written
FailedRequest ==
    \/ faults' > faults
    \/ pc = "fetch" /\ pc' = "fetch" /\ fetch'.result = <<>> /\ fetch' # fetch

\* download finds that its MavenPom has no document
NothingToDownload == pc = "download" /\ Len(pom._all_poms) = 0

\* a failed request leaves the download calls as they are, and a call
\* without metadata returns to its caller only
FailuresContained ==
    /\ FailedRequest => stack' = stack /\ pc' \in {"fetch", "deps"}
    /\ NothingToDownload =>
          /\ stack' = SubSeq(stack, 1, Len(stack) - 1)
          /\ _downloaded_libraries' = _downloaded_libraries
          /\ pc' = IF Len(stack) > 1 THEN "deps" ELSE "main"

\* the jar of a downloaded dependency was not written, during the first traversal
PersistFailed(lib) ==
    /\ lib_index = 1
    /\ pc = "deps"
    /\ InList(lib, _downloaded_libraries)
    /\ lib # download_libraries[1]
    /\ JarFileName(lib) \notin out_dir

\* C9 as claimed: a failure confined to a dependency D (metadata unavailable
\* at every base url, a transport error at a base url, a jar that cannot be
\* written) does not abort the traversal, the other dependencies are still
\* processed, and D yields no dependencies (and no package when its metadata
\* is unavailable).
C9_FailedDependencyYieldsNothing ==
    /\ [](/\ DepsProcessedInOrder
          /\ UnavailableYieldsNothing
          /\ \A lib \in DOMAIN resolved : PersistFailed(lib) => resolved[lib] = <<>>)
    /\ [][FailuresContained]_vars

\* C9 (amended): such a failure does not abort the traversal and the other
\* dependencies are still processed; D yields no dependencies and no package
\* when its metadata is unavailable at every base url, whereas after a failure
\* at one base url followed by a success at another, or after a jar that
\* cannot be written, D is appended to the visited list and its dependencies
\* are processed like any others.  No exception of a request reaches main.
C9_FailuresContained ==
    /\ [](/\ DepsProcessedInOrder
          /\ UnavailableYieldsNothing
          /\ \A n \in 1..Len(exceptions) : exceptions[n].type = "KeyError")
    /\ [][FailuresContained]_vars

\* a traversal has ended in which a dependency had no metadata, and a later
\* dependency of the same coordinate was downloaded, lost its jar, and had
\* its own dependencies processed
C9_SiblingProcessedAfterFailure ==
    /\ pc = "main"
    /\ lib_index = 2
    /\ exceptions = <<>>
    /\ \E lib \in DOMAIN resolved : \E i, j \in 1..Len(resolved[lib]) :
          /\ i < j
          /\ Unavailable(resolved[lib][i])
          /\ InList(resolved[lib][j], _downloaded_libraries)
          /\ JarFileName(resolved[lib][j]) \notin out_dir
          /\ resolved[resolved[lib][j]] # <<>>
          /\ \A k \in 1..Len(resolved[resolved[lib][j]]) :
                Processed(resolved[resolved[lib][j]][k])

\* C10: the documents published have no cycle of parents and no property that
\* refers to itself; then every run of main ends, also when dependencies form
\* a cycle or a coordinate is reached over several paths.
C10_Terminates == <>(pc = "done")

\* a run has ended in which g:a:1.0 and g:b:1.0 depend on each other
C10_CycleDone ==
    /\ pc = "done"
    /\ LibA \in DOMAIN resolved
    /\ LibB \in DOMAIN resolved
    /\ InList(LibB, resolved[LibA])
    /\ InList(LibA, resolved[LibB])

(***************************************************************************)
(* The visited list over a whole run, and the root coordinate.             *)
(***************************************************************************)
\* the number of _do_download calls for a coordinate, over all traversals
RECURSIVE RetrievalsUpTo(_, _)
RetrievalsUpTo(lib, n) ==
    IF n = 0 THEN 0
    ELSE CopiesIn(<<n, lib>>, jar_requests) + RetrievalsUpTo(lib, n - 1)
Retrievals(lib) == RetrievalsUpTo(lib, Len(download_libraries))

\* C11: the visited list lasts for the whole run: a coordinate whose package
\* was retrieved while an earlier library of --libraries was resolved is not
\* entered and not retrieved again while a later library is resolved.
C11_VisitedSetRunWide ==
    /\ \A e \in BagToSet(jar_requests) : Retrievals(e[2]) <= 1
    /\ \A n \in 1..Len(stack) :
          \A m \in 1..(lib_index - 1) : CopiesIn(<<m, stack[n].mavenLib>>, jar_requests) = 0

\* C12: the result of get_all_dependencies never holds the coordinate the
\* MavenPom was built for, also when a document of its chain (its own or an
\* ancestor's) declares a dependency that evaluates to that coordinate.
C12_RootNotInResult ==
    ModelBuilt => ~InList(pom.mavenLib, ResolvedDependencies)

(***************************************************************************)
(* Properties of the functions that work on text.                          *)
(***************************************************************************)
\* the positions of the ':' of an item
Colons(item) == { i \in 1..Len(item) : item[i] = ":" }

\* exactly three non-empty segments between the ':' of the item
WellFormed(item) ==
    /\ Cardinality(Colons(item)) = 2
    /\ Len(item) >= 5
    /\ 1 \notin Colons(item)
    /\ Len(item) \notin Colons(item)
    /\ \A i \in Colons(item) : i + 1 \notin Colons(item)

\* the item yields a coordinate
Yields(item, returned) ==
    \E k \in 1..Len(returned.result) : __repr__(returned.result[k]) = item

\* C13: an item of --libraries that does not split on ':' into exactly three
\* non-empty segments (too few, too many, an empty one) yields no coordinate
\* and is reported; every other item of the list yields its coordinate.
C13_MalformedRejected ==
    call.fn = "parse_downlod_libaries" =>
        LET items == split(call.libraries, ",") IN
        \A k \in 1..Len(items) :
            IF WellFormed(items[k])
            THEN Yields(items[k], call.returned)
            ELSE /\ ~Yields(items[k], call.returned)
                 /\ InList(items[k], call.returned.printed)

\* a field that is not empty and holds no ':'
PlainField(text) == text # <<>> /\ \A i \in 1..Len(text) : text[i] # ":"

\* C14: for a coordinate whose three fields are non-empty and hold no ':',
\* parsing its __repr__ text yields that coordinate, equal by __eq__ (all
\* three fields, on which __hash__ is computed, are the same).
C14_RoundTrip ==
    (/\ call.fn = "__repr__"
     /\ PlainField(call.self.groupId)
     /\ PlainField(call.self.artifactId)
     /\ PlainField(call.self.version))
        => call.returned.result = << call.self >>

\* the text is ${ followed by a name followed by }
ExactForm(val) ==
    /\ Len(val) >= 3
    /\ val = <<"$", "{">> \o SubSeq(val, 3, Len(val) - 1) \o <<"}">>

\* C15: for a property table without a reference cycle and any text v,
\* evaluating the result of _eval_with_properties( v ) again returns the
\* same text, and a text that is not of the form ${name} (it does not begin
\* with ${ or does not end with }) is returned unchanged.
C15_InterpolationIdempotent ==
    call.fn = "_eval_with_properties" =>
        /\ call.again = call.returned
        /\ ~ExactForm(call.val) => call.returned = call.val

\* ${ver} evaluated through ver = ${base} and base = 2.0, and 2.0 evaluated again
C15_ChainEvaluatedTwice ==
    /\ call.fn = "_eval_with_properties"
    /\ call.val = Ref(ver)
    /\ {ver, base} \subseteq DOMAIN call.properties
    /\ call.properties[ver] = Ref(base)
    /\ call.properties[base] = v20
    /\ call.returned = v20
    /\ call.again = v20

(***************************************************************************)
(* The property table of a MavenPom.                                       *)
(***************************************************************************)
\* the names with a definition in the fetched documents, and project.version
DefinedNames ==
    { project_version } \cup
    UNION { { DeclaredProperties(pom._all_poms[n])[k].name :
                k \in { k \in 1..Len(DeclaredProperties(pom._all_poms[n])) :
                          "text" \in DOMAIN DeclaredProperties(pom._all_poms[n])[k] } } :
            n \in 1..Len(pom._all_poms) }

\* C16: when two documents of the fetched parent chain define a property of
\* the same name, the table holds, and interpolation uses, the definition of
\* the document fetched later: the ancestor's definition overwrites the
\* descendant's, and an ancestor's project.version overwrites the version of
\* the coordinate the table was seeded with.
C16_LaterDefinitionWins ==
    /\ pom # NoPom =>
          /\ DOMAIN pom._properties = DefinedNames
          /\ \A name \in DefinedNames : pom._properties[name] = DefinitionOf(name)
    /\ (ModelBuilt /\ pom._all_poms = << PomOverriddenChild, PomOverridingParent >>) =>
          ResolvedDependencies = << LibB2, LibC3 >>

\* g:a:1.0 defines ver = 1.0, its parent ver = 2.0 and project.version = 3.0:
\* g:b:${ver} and g:c:${project.version} are resolved with the parent's values
C16_ParentOverwrites ==
    /\ ModelBuilt
    /\ pom.mavenLib = LibA
    /\ pom._all_poms = << PomOverriddenChild, PomOverridingParent >>
    /\ pom._properties[ver] = v20
    /\ pom._properties[project_version] = v30
    /\ ResolvedDependencies = << LibB2, LibC3 >>

(***************************************************************************)
(* The order of the traversal.                                             *)
(***************************************************************************)
\* every download call that waits for another one has appended its
\* coordinate, and waits for the call on the dependency its loop is at
CallersRecorded ==
    \A n \in 1..Len(stack) :
        /\ (n < Len(stack) \/ stack[n].i > 0) =>
                InList(stack[n].mavenLib, _downloaded_libraries)
        /\ n < Len(stack) =>
                /\ stack[n].i >= 1
                /\ stack[n + 1].mavenLib = stack[n].deps[stack[n].i]

\* a POM is requested only for the innermost call, before its jar is requested
FetchBeforeRetrieval ==
    /\ pc = "do_download" =>
          /\ fetch = NoFetch
          /\ Len(pom.parents) = 0
          /\ \A lib \in DOMAIN pom._lib_base_url : lib \in DOMAIN _cache
    /\ pc = "fetch" =>
          CopiesIn(<<lib_index, Top(stack).mavenLib>>, jar_requests) = 0

\* only the innermost call moves its loop on, by one dependency
InnermostAdvances ==
    \A n \in 1..Len(stack) :
        (n <= Len(stack') /\ stack'[n].mavenLib = stack[n].mavenLib
                          /\ stack'[n].i # stack[n].i)
            => /\ n = Len(stack)
               /\ stack'[n].i = stack[n].i + 1
               /\ pc = "deps"

\* C17: the traversal is sequential, depth-first and pre-order: the POMs of
\* the parent chain of a coordinate are all fetched before its jar is
\* requested, the coordinate is appended to the visited list before download
\* is entered for any of its dependencies, and the call for its i-th
\* dependency has returned, with everything below it, before the loop moves
\* to the next dependency.
C17_DepthFirstPreOrder ==
    /\ [](FetchBeforeRetrieval /\ CallersRecorded /\ DepsProcessedInOrder)
    /\ [][InnermostAdvances]_vars
    /\ [][pom_requests' # pom_requests =>
            CopiesIn(<<lib_index, Top(stack).mavenLib>>, jar_requests') = 0]_vars

\* the call for the first dependency has returned with its own dependencies
\* processed, and the jar of the second dependency is about to be requested
C17_SecondSubtreeEntered ==
    /\ pc = "do_download"
    /\ Len(stack) = 2
    /\ stack[1].i = 2
    /\ stack[2].mavenLib = stack[1].deps[2]
    /\ stack[1].deps[1] \in DOMAIN resolved
    /\ resolved[stack[1].deps[1]] # <<>>
    /\ \A k \in 1..Len(resolved[stack[1].deps[1]]) :
          Processed(resolved[stack[1].deps[1]][k])
    /\ CopiesIn(<<lib_index, stack[1].deps[1]>>, jar_requests) = 1
    /\ CopiesIn(<<lib_index, stack[2].mavenLib>>, jar_requests) = 0

(***************************************************************************)
(* Construction of a MavenPom.                                             *)
(***************************************************************************)
\* C18: the construction of a MavenPom never fails because a group and
\* artifact is declared more than once in the fetched chain: also when a
\* later declaration or an exclusion names a library already accumulated and
\* one of the two has no version, the two extraction loops complete and
\* get_all_dependencies is called.
C18_ConstructionCompletes ==
    /\ ChainFetched => ExtractAll(pom._properties, pom._all_poms).raised = ""
    /\ exceptions = <<>>

\* the documents of the parent chain of a coordinate, as the cache holds them
RECURSIVE OwnChainFrom(_, _)
OwnChainFrom(lib, depth) ==
    IF depth = 0 \/ lib \notin DOMAIN _cache THEN <<>>
    ELSE IF DOMAIN _cache[lib] = {} THEN <<>>
    ELSE << _cache[lib].content >> \o
         (IF HasParent(_cache[lib].content)
          THEN OwnChainFrom(_extract_parent(_cache[lib].content), depth - 1)
          ELSE <<>>)
OwnChain(lib) == OwnChainFrom(lib, Cardinality(DOMAIN _cache))

\* the properties of a chain, extracted into a table that holds nothing but
\* project.version = the version of the coordinate
RECURSIVE OwnPropertiesFrom(_, _, _)
OwnPropertiesFrom(properties, chain, n) ==
    IF n > Len(chain) THEN properties
    ELSE OwnPropertiesFrom(_extract_properties(properties, chain[n]), chain, n + 1)
OwnProperties(lib) ==
    OwnPropertiesFrom((project_version :> lib.version), OwnChain(lib), 1)

\* the dependencies that follow from the version and the chain of a coordinate
OwnResult(lib) ==
    LET extracted == ExtractAll(OwnProperties(lib), OwnChain(lib))
    IN  get_all_dependencies(OwnProperties(lib), extracted.dependency_management,
                             extracted.dependencies)

\* C19: the property table of a MavenPom is its own: what
\* get_all_dependencies returns for a coordinate D follows from the version
\* of D and the documents of D's own parent chain alone, whatever properties
\* the chain of the coordinate that depends on D, or of a coordinate
\* processed earlier in the run, has defined.
C19_PropertyTableIsolated ==
    /\ ModelBuilt =>
          /\ pom._all_poms = OwnChain(pom.mavenLib)
          /\ pom._properties = OwnProperties(pom.mavenLib)
          /\ ResolvedDependencies = OwnResult(pom.mavenLib)
    /\ \A lib \in DOMAIN resolved : resolved[lib] = OwnResult(lib)

\* g:a:1.0 defines ver = 2.0; its dependency g:b:1.0 declares g:c:${ver} and
\* g:d:${project.version} and defines nothing: only g:d:1.0 is resolved
C19_ForeignPropertyIgnored ==
    /\ ModelBuilt
    /\ Len(stack) = 2
    /\ stack[1].mavenLib = LibA
    /\ repository[LibA] = PomForeignDef
    /\ pom.mavenLib = LibB
    /\ pom._all_poms = << PomForeignRef >>
    /\ ver \notin DOMAIN pom._properties
    /\ ResolvedDependencies = << LibD >>

(***************************************************************************)
(* The base url recorded for the coordinate of a MavenPom.                 *)
(***************************************************************************)
\* the traversal _downloaded_libraries belongs to
Traversal == IF pc \in {"main", "done"} THEN lib_index - 1 ELSE lib_index

\* download is about to test a MavenPom that holds a document
UsableModel == pc = "download" /\ Len(pom._all_poms) > 0

\* C20: the base urls are not empty texts; a MavenPom that holds a document
\* has a base url recorded for its own coordinate, so that download never
\* skips _do_download for it: the coordinates _do_download is called for are
\* exactly those appended to the visited list, and a coordinate whose own
\* POM no base url delivered is never appended.
C20_BaseUrlRecorded ==
    /\ [](/\ UsableModel =>
                /\ Top(stack).mavenLib \in DOMAIN pom._lib_base_url
                /\ pom._lib_base_url[Top(stack).mavenLib] # ""
                /\ InList(pom._lib_base_url[Top(stack).mavenLib], base_urls)
          /\ \A k \in 1..Len(_downloaded_libraries) :
                CopiesIn(<<Traversal, _downloaded_libraries[k]>>, jar_requests) = 1
          /\ \A e \in BagToSet(jar_requests) :
                e[1] = Traversal => InList(e[2], _downloaded_libraries)
          /\ \A lib \in DOMAIN _cache :
                Unavailable(lib) => ~InList(lib, _downloaded_libraries))
    /\ [][UsableModel => pc' = "do_download"]_vars
    /\ [][(pc # "main" /\ _downloaded_libraries' # _downloaded_libraries)
            => pc = "do_download"]_vars

\* the jar of a dependency is about to be requested from the second base url,
\* which delivered its POM, while an earlier dependency without a POM was
\* left out of the visited list
C20_RetrievedFromRecordedLocation ==
    /\ pc = "do_download"
    /\ Len(stack) = 2
    /\ base_urls[1] # base_urls[Len(base_urls)]
    /\ get_lib_base_url(pom, Top(stack).mavenLib) = base_urls[Len(base_urls)]
    /\ \E k \in 1..(stack[1].i - 1) :
          /\ Unavailable(stack[1].deps[k])
          /\ ~InList(stack[1].deps[k], _downloaded_libraries)

====
